---- MODULE Spec2Model ----
(***************************************************************************)
(* Model of the resumable ingestion pipeline of python_draft:              *)
(*   generate_summaries.py  (summarization stage, extract_data)            *)
(*   generate_questions.py  (question stage, generate_all_questions)       *)
(*   index_documents.py     (chunked, index stage)                         *)
(*                                                                         *)
(* A transform stage is a sequential program: the module start-up loads    *)
(* the checkpoint file, the loop walks the input list, a periodic backup   *)
(* and a final backup rewrite the checkpoint file in place.  The process   *)
(* can be interrupted at any step and started again.                       *)
(***************************************************************************)
EXTENDS Naturals, Sequences, FiniteSets, TLC

\* ------------------------------------------------------------------ bounds
MaxUnits  == 22   \* length of the long input list
MaxShort  == 2    \* longest of the short input lists
MaxFaults == 1    \* units of one behaviour whose outcome is not a plain success
MaxRuns   == 2    \* process starts in one behaviour
MaxItems  == 4    \* longest list handed to chunked
MaxCount  == 3    \* largest max_count handed to chunked
DocChunks == 2    \* chunks the splitter makes of a document with content
MaxLines  == 3    \* lines of a generator answer
MaxN      == 2    \* largest small n handed to generate_questions_from_summary
MaxDocs   == 2    \* documents of a short summaries backup
MaxIdLen  == 2    \* characters of a doc_id
MaxChunkIndex == 10   \* largest chunk index of a record id
MaxListLen == 3   \* units of a short input list that may repeat a doc_id

\* ------------------------------------------------------- program constants
backup_every_summaries == 10
backup_every_questions == 20
min_question_len == 10        \* len(q) > 10
default_n == 10               \* n: int = 10
min_summary_len == 20         \* len(summary.strip()) > 20
DIMENSION == 1536
BATCH_EMB == 128
BATCH_UPSERT == 200
MAX_DOC_BYTES == 3500000

VARIABLES
    stage,              \* the program that runs: "summaries" | "questions" | "index" |
                        \* "chunked" | "normalize" | "record_id"
    file_ids,           \* the input list: file_ids / summaries_data['doc_id']
    run,                \* number of process starts so far
    pc,                 \* position of the process
    disk,               \* the checkpoint file (backup_path / questions_backup_path)
    out,                \* the in-memory ledger: out / questions_out
    already_processed,  \* already_processed / already_processed_questions
    i,                  \* 1-based position of the loop in the input list
    processed_count,
    skipped_count,
    failed_ids,         \* extract_data's failed_ids
    failed_count,       \* generate_all_questions' failed_count
    \* history of the current run
    loaded,             \* the ledger as loaded at start-up
    attempts,           \* attempts[j]: times unit j entered the try block
    llm_calls,          \* positions for which the text generator was invoked
    failed_at,          \* positions whose processing failed
    skip_eligible,      \* positions whose source text was empty or too short
    last_flush,         \* the ledger written by the last completed flush, else loaded
    flushes,            \* completed flushes
    faults,             \* outcomes other than a plain success so far
    prev,               \* how the previous process ended and what it left
    \* index collections (index_documents.py)
    collections,        \* record ids held by idx_questions, idx_summaries, idx_chunks
    indexed,            \* TRUE once the index stage ran over this run's ledger
    \* chunked(xs, n); n is also the n of generate_questions_from_summary
    xs, n, k, buf, groups,
    \* generate_questions_from_summary(summary, file_name, year, n)
    content,            \* response.content, a string as a sequence of characters
    questions,          \* the list the function returns
    \* index_documents.py, and the summaries file the later stages read
    summaries_backup,   \* content of the summaries backup file (SUMMARIES_BACKUP)
    ipc,                \* position of the index stage
    section,            \* "questions" | "summaries" | "chunks"
    existing,           \* dimension of each index the vector store holds, 0 for none
    records,            \* q_records / s_records / c_records of the section
    embedded,           \* embedding batches of the section done
    upserted,           \* upsert batches of the section done
    embed_calls,        \* history: the texts of every embed_documents call
    upserts,            \* history: the records of every upsert call
    uploaded,           \* q_uploaded, s_uploaded, c_uploaded
    skipped,            \* q_skipped, s_skipped, c_skipped
    \* record ids as strings
    keys,               \* two artifact keys of one collection
    record_ids,         \* the record ids formatted for them
    \* what the module-level code of generate_questions.py finds
    files,              \* which input files exist, and the columns of the table
    sys_exit            \* the arguments of the sys.exit call made, if any

tvars == <<file_ids, run, pc, disk, out, already_processed, i, processed_count,
           skipped_count, failed_ids, failed_count, loaded, attempts,
           llm_calls, failed_at, skip_eligible, last_flush, flushes, faults, prev,
           collections, indexed>>
tdata == <<file_ids, run, disk, out, already_processed, i, processed_count,
           skipped_count, failed_ids, failed_count, loaded, attempts,
           llm_calls, failed_at, skip_eligible, last_flush, flushes, faults, prev,
           collections, indexed>>
pdata == <<file_ids, run, disk, out, already_processed, i, processed_count,
           skipped_count, failed_ids, failed_count, loaded, attempts,
           llm_calls, failed_at, skip_eligible, last_flush, flushes, prev,
           indexed>>
cvars == <<xs, n, k, buf, groups>>
nvars == <<content, questions>>
ivars == <<ipc, section, existing, records, embedded, upserted, embed_calls,
           upserts, uploaded, skipped>>
rvars == <<keys, record_ids>>
evars == <<files, sys_exit>>
vars  == <<stage, tvars, cvars, nvars, summaries_backup, ivars, rvars, evars>>

\* ------------------------------------------------------------------ ledger
Range(s) == {s[j] : j \in DOMAIN s}

SeqsUpTo(S, m) == UNION {[1..len -> S] : len \in 0..m}

EmptyOut == [doc_id |-> <<>>, summary |-> <<>>, chunks |-> <<>>]

EmptyQuestionsOut == [doc_id |-> <<>>, questions |-> <<>>]

EmptyLedger == IF stage = "questions" THEN EmptyQuestionsOut ELSE EmptyOut

backup_every ==
    IF stage = "questions" THEN backup_every_questions ELSE backup_every_summaries

\* The file is absent, holds a complete pickle, or holds the beginning of one.
Missing == [state |-> "missing", data |-> EmptyLedger]
Partial == [state |-> "partial", data |-> EmptyLedger]
Whole(o) == [state |-> "whole", data |-> o]

\* open(path, "wb"): the file is created or truncated to zero length.
OpenWb == Partial

\* pickle.dump(o, f) run to completion and the file closed.
PickleDump(o) == Whole(o)

Running == {"load", "loop", "dump_periodic", "dump_final"}
Ended   == {"done", "interrupted", "aborted"}

UnitIds(m) == [j \in 1..m |-> j]

\* The input lists tried: every short list, and one list long enough for
\* the periodic backup of either stage to come round.
InputLists == {UnitIds(m) : m \in (0..MaxShort) \cup {MaxUnits}}

NoAttempts == [j \in DOMAIN file_ids |-> 0]

\* ------------------------------------------------------- process start-up
\* The state of a process that has not yet run its module-level code.
FreshProcess ==
    /\ out = EmptyLedger
    /\ already_processed = {}
    /\ i = 1
    /\ processed_count = 0
    /\ skipped_count = 0
    /\ failed_ids = <<>>
    /\ failed_count = 0
    /\ loaded = EmptyLedger
    /\ attempts = NoAttempts
    /\ llm_calls = {}
    /\ failed_at = {}
    /\ skip_eligible = {}
    /\ last_flush = EmptyLedger
    /\ flushes = 0

EmptyCollections == [questions |-> {}, summaries |-> {}, chunks |-> {}]

NoPrev == [ended |-> "none", indexed |-> FALSE, failed |-> 0,
           disk |-> Missing, collections |-> EmptyCollections]

ChunkedIdle == xs = <<>> /\ n = 1 /\ k = 1 /\ buf = <<>> /\ groups = <<>>

NormalizeIdle == content = <<>> /\ questions = <<>>

IndexNames == {"questions", "summaries", "chunks"}

RecordIdIdle == keys = <<>> /\ record_ids = <<>>

\* Columns generate_questions.py requires of the metadata table.
RequiredColumns == {"id", "name", "year"}

\* Every input file of the question stage is there and the table is whole.
AllPresent == [summaries_backup_path |-> TRUE, files_index_path |-> TRUE,
               columns |-> RequiredColumns]

ConfigIdle == files = AllPresent /\ sys_exit = <<>>

NoCounts == [name \in IndexNames |-> 0]

IndexIdle ==
    /\ ipc = "idle"
    /\ section = "questions"
    /\ existing = NoCounts
    /\ records = <<>>
    /\ embedded = 0
    /\ upserted = 0
    /\ embed_calls = <<>>
    /\ upserts = <<>>
    /\ uploaded = NoCounts
    /\ skipped = NoCounts

\* The summaries file as the question stage of this specification reads it:
\* the doc_ids of the input list, each with a summary left open ("any": the
\* outcome of the unit decides whether it is long enough).
OpenSummaries ==
    IF stage = "questions"
    THEN [doc_id  |-> file_ids,
          summary |-> [j \in DOMAIN file_ids |-> "any"],
          chunks  |-> [j \in DOMAIN file_ids |-> <<>>]]
    ELSE EmptyOut

Init ==
    /\ stage \in {"summaries", "questions"}
    /\ file_ids \in InputLists
    /\ run = 1
    /\ pc = "load"
    /\ disk = Missing
    /\ faults = 0
    /\ prev = NoPrev
    /\ collections = EmptyCollections
    /\ indexed = FALSE
    /\ FreshProcess
    /\ ChunkedIdle
    /\ NormalizeIdle
    /\ summaries_backup = OpenSummaries
    /\ IndexIdle
    /\ RecordIdIdle
    /\ ConfigIdle

AlreadyProcessedForgotten(o) == {}

\* set(out["doc_id"]), computed once at start-up.
AlreadyProcessedOf(o) == Range(o.doc_id)

LoadedLedgerKeepsChunks(f) ==
    IF f.state = "missing" THEN EmptyLedger ELSE f.data

\* The ledger the start-up code builds from the file: generate_questions.py
\* drops a "chunks" key from a loaded dictionary.
LoadedLedger(f) ==
    IF f.state = "missing" THEN EmptyLedger
    ELSE IF stage = "questions" /\ "chunks" \in DOMAIN f.data
         THEN [key \in DOMAIN f.data \ {"chunks"} |-> f.data[key]]
         ELSE f.data

PickleLoadNeverRaises(f) == FALSE

\* pickle.load(f) of a file that exists: a file cut short (zero length or
\* the beginning of a pickle) raises EOFError / UnpicklingError.
PickleLoadRaises(f) == f.state = "partial"

\* Module-level code of a stage: load the backup when it exists, else start
\* from an empty ledger.  pickle.load of a truncated file raises, nothing
\* catches it and the process ends before the loop.
Startup ==
    /\ pc = "load"
    /\ IF PickleLoadRaises(disk)
       THEN /\ pc' = "aborted"
            /\ UNCHANGED <<out, already_processed, loaded, last_flush>>
       ELSE /\ out' = LoadedLedger(disk)
            /\ already_processed' = AlreadyProcessedOf(LoadedLedger(disk))
            /\ loaded' = LoadedLedger(disk)
            /\ last_flush' = LoadedLedger(disk)
            /\ pc' = "loop"
    /\ UNCHANGED <<file_ids, run, disk, i, processed_count, skipped_count,
                   failed_ids, failed_count, attempts, llm_calls, failed_at, skip_eligible,
                   flushes, faults, prev, collections, indexed>>

generate_summaries_startup ==
    /\ stage = "summaries"
    /\ Startup
    /\ UNCHANGED <<stage, cvars, nvars, summaries_backup, ivars, rvars, evars>>

FatalConfigurationColumnsUnchecked(f) ==
    \/ ~f.summaries_backup_path
    \/ ~f.files_index_path

\* The three module-level checks that end in sys.exit(1): the summaries
\* backup is missing, files_index.csv is missing, or it lacks one of the
\* columns id, name, year.
FatalConfiguration(f) ==
    \/ ~f.summaries_backup_path
    \/ ~f.files_index_path
    \/ ~(RequiredColumns \subseteq f.columns)

\* The questions backup is loaded first (lines 23-33); the process that gets
\* past the load and the three checks goes on to generate_all_questions.
generate_questions_startup ==
    /\ stage = "questions"
    /\ IF PickleLoadRaises(disk) THEN TRUE ELSE ~FatalConfiguration(files)
    /\ Startup
    /\ UNCHANGED <<stage, cvars, nvars, summaries_backup, ivars, rvars, evars>>

\* The questions backup was loaded and one of the checks fails: the error
\* is printed and sys.exit(1) ends the process at module level, before
\* generate_all_questions is called and with no file opened for writing.
generate_questions_exit ==
    /\ stage = "questions"
    /\ pc = "load"
    /\ ~PickleLoadRaises(disk)
    /\ FatalConfiguration(files)
    /\ out' = LoadedLedger(disk)
    /\ already_processed' = AlreadyProcessedOf(LoadedLedger(disk))
    /\ loaded' = LoadedLedger(disk)
    /\ last_flush' = LoadedLedger(disk)
    /\ sys_exit' = <<1>>
    /\ pc' = "exited"
    /\ UNCHANGED <<stage, file_ids, run, disk, i, processed_count, skipped_count,
                   failed_ids, failed_count, attempts, llm_calls, failed_at,
                   skip_eligible, flushes, faults, prev, collections, indexed,
                   cvars, nvars, summaries_backup, ivars, rvars, files>>

\* ------------------------------------------------------------ shared steps
IsAlreadyProcessedNever(fid) == FALSE

\* `fid in already_processed`
IsAlreadyProcessed(fid) == fid \in already_processed

BackupDueOnPosition(count) == i % backup_every = 0

BackupDueEveryOther(count) == count > 0 /\ count % (2 * backup_every) = 0

\* `processed_count > 0 and processed_count % backup_every == 0`
BackupDue(count) == count > 0 /\ count % backup_every = 0

AfterFailureBreak(pos) == Len(file_ids) + 1

AfterFailureRetry(pos) == pos

AfterFailureSkipNext(pos) == pos + 2

\* The position the loop takes up after a unit raised: `continue`.
AfterFailure(pos) == pos + 1

\* Texts are told apart by what the stages test of them.  The number of
\* characters of a text, all of them of one byte:
\*   "empty"      nothing is left of the text after strip()
\*   "short"      min_summary_len characters
\*   "limit"      MAX_DOC_BYTES characters
\*   "oversized"  one character more than MAX_DOC_BYTES
\*   any other    a text longer than min_summary_len and below the ceiling
ByteLen(text) ==
    CASE text = "empty" -> 0
      [] text = "short" -> min_summary_len
      [] text = "limit" -> MAX_DOC_BYTES
      [] text = "oversized" -> MAX_DOC_BYTES + 1
      [] OTHER -> min_summary_len + 1

\* Budget of outcomes other than a plain success.
Charge(outcome) ==
    IF outcome = "ok" THEN faults' = faults
    ELSE faults < MaxFaults /\ faults' = faults + 1

\* ------------------------------------------------- extract_data (summaries)
\* What processing one file can come to:
\*   ok              summary generated, chunks split
\*   download_error  the download or the loader raises before any generation
\*   chain_error     the summarize chain raises (DOCX)
\*   no_content      spreadsheet without readable sheets or chunks: a
\*                   placeholder sentence is returned with no chunks
\*   error_text      the generation call of a spreadsheet fails and
\*                   create_contextual_summary returns the error message
\*   empty_summary   the generator answers with an empty text
SummaryOutcomes ==
    {"ok", "download_error", "chain_error", "no_content", "error_text", "empty_summary"}

SummaryInvokesLLM(outcome) ==
    outcome \in {"ok", "chain_error", "error_text", "empty_summary"}

SummaryRaises(outcome) == outcome \in {"download_error", "chain_error"}

\* excel_to_text found no readable sheet, or the splitter made no chunk of
\* the sheets: the source text of the unit is empty.
SummarySourceEmpty(outcome) == outcome = "no_content"

SummaryText(outcome) ==
    CASE outcome = "ok" -> "summary"
      [] outcome = "no_content" -> "placeholder"
      [] outcome = "error_text" -> "error_text"
      [] outcome = "empty_summary" -> "empty"

\* The chunks the splitter makes of a document with content.
ChunksOfDocument == [c \in 1..DocChunks |-> "chunk"]

\* The chunks returned with the summary: their texts.
SummaryChunks(outcome) == IF outcome = "no_content" THEN <<>> ELSE ChunksOfDocument

AppendSummaryInFront(o, fid, outcome) ==
    [doc_id  |-> <<fid>> \o o.doc_id,
     summary |-> <<SummaryText(outcome)>> \o o.summary,
     chunks  |-> <<SummaryChunks(outcome)>> \o o.chunks]

\* Lines 321-323: the three appends to the lists of out.
AppendSummary(o, fid, outcome) ==
    [doc_id  |-> Append(o.doc_id, fid),
     summary |-> Append(o.summary, SummaryText(outcome)),
     chunks  |-> Append(o.chunks, SummaryChunks(outcome))]

extract_data_skip ==
    /\ stage = "summaries"
    /\ pc = "loop"
    /\ i <= Len(file_ids)
    /\ IsAlreadyProcessed(file_ids[i])
    /\ skipped_count' = skipped_count + 1
    /\ i' = i + 1
    /\ UNCHANGED <<stage, file_ids, run, pc, disk, out, already_processed,
                   processed_count, failed_ids, failed_count, loaded, attempts,
                   llm_calls, failed_at, skip_eligible, last_flush, flushes, faults, prev, collections, indexed, cvars, nvars, summaries_backup, ivars, rvars, evars>>

\* Lines 294-341: one unit that the ledger does not hold.  A unit that raises
\* is recorded and the loop continues; a unit that does not is appended and
\* control reaches the periodic backup, where open(..., "wb") truncates the
\* file before pickle.dump fills it.
extract_data_unit ==
    /\ stage = "summaries"
    /\ pc = "loop"
    /\ i <= Len(file_ids)
    /\ ~IsAlreadyProcessed(file_ids[i])
    /\ \E outcome \in SummaryOutcomes :
        /\ Charge(outcome)
        /\ attempts' = [attempts EXCEPT ![i] = @ + 1]
        /\ llm_calls' = IF SummaryInvokesLLM(outcome) THEN llm_calls \cup {i} ELSE llm_calls
        /\ skip_eligible' = IF SummarySourceEmpty(outcome)
                            THEN skip_eligible \cup {i} ELSE skip_eligible
        /\ IF SummaryRaises(outcome)
           THEN /\ failed_ids' = Append(failed_ids, file_ids[i])
                /\ failed_at' = failed_at \cup {i}
                /\ i' = AfterFailure(i)
                /\ pc' = "loop"
                /\ UNCHANGED <<out, processed_count, disk>>
           ELSE /\ out' = AppendSummary(out, file_ids[i], outcome)
                /\ processed_count' = processed_count + 1
                /\ UNCHANGED <<failed_ids, failed_at>>
                /\ IF BackupDue(processed_count + 1)
                   THEN disk' = OpenWb /\ pc' = "dump_periodic" /\ i' = i
                   ELSE disk' = disk /\ pc' = "loop" /\ i' = i + 1
    /\ UNCHANGED <<stage, file_ids, run, already_processed, skipped_count,
                   failed_count, loaded, last_flush, flushes, prev, collections,
                   indexed, cvars, nvars, summaries_backup, ivars, rvars, evars>>

\* Line 340 run to its end: the periodic backup is complete.
extract_data_backup_dump ==
    /\ stage = "summaries"
    /\ pc = "dump_periodic"
    /\ disk' = PickleDump(out)
    /\ last_flush' = out
    /\ flushes' = flushes + 1
    /\ pc' = "loop"
    /\ i' = i + 1
    /\ UNCHANGED <<stage, file_ids, run, out, already_processed, processed_count,
                   skipped_count, failed_ids, failed_count, loaded, attempts,
                   llm_calls, failed_at, skip_eligible, faults, prev, collections, indexed, cvars, nvars, summaries_backup, ivars, rvars, evars>>

\* Lines 343-346: the final backup after the loop.
extract_data_final_open ==
    /\ stage = "summaries"
    /\ pc = "loop"
    /\ i > Len(file_ids)
    /\ disk' = OpenWb
    /\ pc' = "dump_final"
    /\ UNCHANGED <<stage, file_ids, run, out, already_processed, i, processed_count,
                   skipped_count, failed_ids, failed_count, loaded, attempts,
                   llm_calls, failed_at, skip_eligible, last_flush, flushes, faults, prev, collections, indexed, cvars, nvars, summaries_backup, ivars, rvars, evars>>

extract_data_final_dump ==
    /\ stage = "summaries"
    /\ pc = "dump_final"
    /\ disk' = PickleDump(out)
    /\ last_flush' = out
    /\ flushes' = flushes + 1
    /\ pc' = "done"
    /\ UNCHANGED <<stage, file_ids, run, out, already_processed, i, processed_count,
                   skipped_count, failed_ids, failed_count, loaded, attempts,
                   llm_calls, failed_at, skip_eligible, faults, prev, collections, indexed, cvars, nvars, summaries_backup, ivars, rvars, evars>>

\* -------------------------------------- generate_all_questions (questions)
\* What processing one summary can come to:
\*   ok              the summary is longer than 20 characters and the
\*                   generator's answer normalizes to at least one question
\*   short_summary   the summary is empty or at most 20 characters: the
\*                   generator is not invoked and questions stays []
\*   llm_error       llm.invoke raises inside generate_questions_from_summary,
\*                   which returns []
\*   no_questions    the answer holds no line longer than 10 characters
\*   exception       reading the unit raises inside the try block
QuestionOutcomes == {"ok", "short_summary", "llm_error", "no_questions", "exception"}

QuestionInvokesLLM(outcome) == outcome \in {"ok", "llm_error", "no_questions"}

\* `summary and len(summary.strip()) > 20` is false: the source text of the
\* unit is empty or at most 20 characters long.
QuestionSourceTooShort(outcome) == outcome = "short_summary"

\* summaries_data['summary'][i] and the outcome go together: a summary the
\* specification fixes is too short exactly when line 114 finds it so.
SummaryAllows(summary, outcome) ==
    IF summary = "any" THEN TRUE
    ELSE QuestionSourceTooShort(outcome) <=> ByteLen(summary) <= min_summary_len

\* The outcome follows from the text of the summary alone.
SummaryDecides(summary, outcome) ==
    summary # "any" /\ QuestionSourceTooShort(outcome)

\* Lines 118-119: the two appends to the lists of questions_out.
AppendQuestions(o, doc, outcome) ==
    [o EXCEPT !.doc_id = Append(@, doc), !.questions = Append(@, "questions")]

generate_all_questions_skip ==
    /\ stage = "questions"
    /\ pc = "loop"
    /\ i <= Len(file_ids)
    /\ IsAlreadyProcessed(file_ids[i])
    /\ skipped_count' = skipped_count + 1
    /\ i' = i + 1
    /\ UNCHANGED <<stage, file_ids, run, pc, disk, out, already_processed,
                   processed_count, failed_ids, failed_count, loaded, attempts,
                   llm_calls, failed_at, skip_eligible, last_flush, flushes, faults, prev, collections, indexed, cvars, nvars, summaries_backup, ivars, rvars, evars>>

\* Lines 106-139: one unit that the ledger does not hold.  Whatever the
\* unit comes to, control reaches the periodic backup of the same iteration.
generate_all_questions_unit ==
    /\ stage = "questions"
    /\ pc = "loop"
    /\ i <= Len(file_ids)
    /\ ~IsAlreadyProcessed(file_ids[i])
    /\ \E outcome \in QuestionOutcomes :
        /\ SummaryAllows(summaries_backup.summary[i], outcome)
        /\ IF SummaryDecides(summaries_backup.summary[i], outcome)
           THEN faults' = faults
           ELSE Charge(outcome)
        /\ attempts' = [attempts EXCEPT ![i] = @ + 1]
        /\ llm_calls' = IF QuestionInvokesLLM(outcome) THEN llm_calls \cup {i} ELSE llm_calls
        /\ skip_eligible' = IF QuestionSourceTooShort(outcome)
                            THEN skip_eligible \cup {i} ELSE skip_eligible
        /\ IF outcome = "ok"
           THEN /\ out' = AppendQuestions(out, file_ids[i], outcome)
                /\ processed_count' = processed_count + 1
                /\ UNCHANGED <<failed_count, failed_at>>
           ELSE /\ failed_count' = failed_count + 1
                /\ failed_at' = failed_at \cup {i}
                /\ UNCHANGED <<out, processed_count>>
    /\ IF BackupDue(processed_count')
       THEN disk' = OpenWb /\ pc' = "dump_periodic" /\ i' = i
       ELSE disk' = disk /\ pc' = "loop" /\ i' = i + 1
    /\ UNCHANGED <<stage, file_ids, run, already_processed, skipped_count,
                   failed_ids, loaded, last_flush, flushes, prev, collections,
                   indexed, cvars, nvars, summaries_backup, ivars, rvars, evars>>

\* Line 138 run to its end: the periodic backup is complete.
generate_all_questions_backup_dump ==
    /\ stage = "questions"
    /\ pc = "dump_periodic"
    /\ disk' = PickleDump(out)
    /\ last_flush' = out
    /\ flushes' = flushes + 1
    /\ pc' = "loop"
    /\ i' = i + 1
    /\ UNCHANGED <<stage, file_ids, run, out, already_processed, processed_count,
                   skipped_count, failed_ids, failed_count, loaded, attempts,
                   llm_calls, failed_at, skip_eligible, faults, prev, collections, indexed, cvars, nvars, summaries_backup, ivars, rvars, evars>>

\* Lines 141-144: the final backup after the loop.
generate_all_questions_final_open ==
    /\ stage = "questions"
    /\ pc = "loop"
    /\ i > Len(file_ids)
    /\ disk' = OpenWb
    /\ pc' = "dump_final"
    /\ UNCHANGED <<stage, file_ids, run, out, already_processed, i, processed_count,
                   skipped_count, failed_ids, failed_count, loaded, attempts,
                   llm_calls, failed_at, skip_eligible, last_flush, flushes, faults, prev, collections, indexed, cvars, nvars, summaries_backup, ivars, rvars, evars>>

generate_all_questions_final_dump ==
    /\ stage = "questions"
    /\ pc = "dump_final"
    /\ disk' = PickleDump(out)
    /\ last_flush' = out
    /\ flushes' = flushes + 1
    /\ pc' = "done"
    /\ UNCHANGED <<stage, file_ids, run, out, already_processed, i, processed_count,
                   skipped_count, failed_ids, failed_count, loaded, attempts,
                   llm_calls, failed_at, skip_eligible, faults, prev, collections, indexed, cvars, nvars, summaries_backup, ivars, rvars, evars>>

\* ------------------------------------------- index stage (index_documents.py)
BlankNever(text) == FALSE

\* `if not text` / `if not clean` / `if not content`
Blank(text) == ByteLen(text) = 0

OversizedNever(text) == FALSE

\* `len(text.encode("utf-8")) > MAX_DOC_BYTES`
Oversized(text) == ByteLen(text) > MAX_DOC_BYTES

\* The two tests that keep an artifact out of the records.
Rejected(text) == Blank(text) \/ Oversized(text)

\* f"{doc_id}::questions", f"{doc_id}::summary", f"{doc_id}::chunk::{i}"
QuestionsRecordId(doc) == <<doc, "questions">>

SummaryRecordIdPerRun(doc) == <<doc, "summary", run>>

SummaryRecordId(doc) == <<doc, "summary">>

ChunkRecordId(doc, c) == <<doc, "chunk", c>>

\* "values": None, and a record as the building loops append it.
None == <<>>

Record(id, text) == [id |-> id, values |-> None, text |-> text]

\* Lines 151-183: q_records, one per ledger entry whose joined questions
\* are neither blank nor above the byte ceiling.
QuestionRecords(q_data) ==
    SelectSeq([j \in DOMAIN q_data.doc_id |->
                  Record(QuestionsRecordId(q_data.doc_id[j]), q_data.questions[j])],
              LAMBDA r : ~Rejected(r.text))

\* Lines 208-239: s_records.
SummaryRecords(s_data) ==
    SelectSeq([j \in DOMAIN s_data.doc_id |->
                  Record(SummaryRecordId(s_data.doc_id[j]), s_data.summary[j])],
              LAMBDA r : ~Rejected(r.text))

\* The places of the chunks in the order the nested loops of lines 267-268
\* visit them: document after document, and in a document chunk after chunk.
\* A place is <<j, c>>: chunk c, counted from 1, of the j-th document.
ChunkPlaces(s_data) ==
    LET width == IF s_data.doc_id = <<>> THEN 0
                 ELSE CHOOSE w \in {Len(s_data.chunks[j]) : j \in DOMAIN s_data.doc_id} :
                          \A j \in DOMAIN s_data.doc_id : Len(s_data.chunks[j]) <= w
        grid  == [t \in 1..(Len(s_data.doc_id) * width) |->
                     <<((t - 1) \div width) + 1, ((t - 1) % width) + 1>>]
    IN  SelectSeq(grid, LAMBDA place : place[2] <= Len(s_data.chunks[place[1]]))

ChunkRecordsRenumbered(s_data) ==
    LET kept == SelectSeq(ChunkPlaces(s_data),
                          LAMBDA place : ~Rejected(s_data.chunks[place[1]][place[2]]))
    IN  [t \in DOMAIN kept |->
            Record(ChunkRecordId(s_data.doc_id[kept[t][1]],
                                 Cardinality({u \in 1..(t - 1) : kept[u][1] = kept[t][1]})),
                   s_data.chunks[kept[t][1]][kept[t][2]])]

\* Lines 267-300: c_records.  enumerate(chunks) numbers the chunks of a
\* document from 0, and a rejected chunk keeps its number.
ChunkRecords(s_data) ==
    LET kept == SelectSeq(ChunkPlaces(s_data),
                          LAMBDA place : ~Rejected(s_data.chunks[place[1]][place[2]]))
    IN  [t \in DOMAIN kept |->
            Record(ChunkRecordId(s_data.doc_id[kept[t][1]], kept[t][2] - 1),
                   s_data.chunks[kept[t][1]][kept[t][2]])]

\* Artifacts the building loops count in q_skipped, s_skipped, c_skipped.
NumRejected(texts) == Cardinality({j \in DOMAIN texts : Rejected(texts[j])})

NumChunksRejected(s_data) ==
    Len(SelectSeq(ChunkPlaces(s_data),
                  LAMBDA place : Rejected(s_data.chunks[place[1]][place[2]])))

Ids(recs) == {recs[j].id : j \in DOMAIN recs}

\* Ids of q_records, s_records and c_records.
QuestionRecordIds(q_data) == Ids(QuestionRecords(q_data))

SummaryRecordIds(s_data) == Ids(SummaryRecords(s_data))

ChunkRecordIds(s_data) == Ids(ChunkRecords(s_data))

\* upsert: a record replaces the record of the same id.
Upsert(collection, ids) == collection \cup ids

\* The questions section of the index stage run over the questions ledger.
index_questions ==
    /\ stage = "questions"
    /\ pc = "done"
    /\ ~indexed
    /\ collections' = [collections EXCEPT
           !.questions = Upsert(@, QuestionRecordIds(disk.data))]
    /\ indexed' = TRUE
    /\ UNCHANGED <<stage, file_ids, run, pc, disk, out, already_processed, i,
                   processed_count, skipped_count, failed_ids, failed_count, loaded,
                   attempts, llm_calls, failed_at, skip_eligible, last_flush, flushes, faults, prev,
                   cvars, nvars, summaries_backup, ivars, rvars, evars>>

\* The summaries and chunks sections of the index stage run over the
\* summaries ledger.
index_summaries ==
    /\ stage = "summaries"
    /\ pc = "done"
    /\ ~indexed
    /\ collections' = [collections EXCEPT
           !.summaries = Upsert(@, SummaryRecordIds(disk.data)),
           !.chunks = Upsert(@, ChunkRecordIds(disk.data))]
    /\ indexed' = TRUE
    /\ UNCHANGED <<stage, file_ids, run, pc, disk, out, already_processed, i,
                   processed_count, skipped_count, failed_ids, failed_count, loaded,
                   attempts, llm_calls, failed_at, skip_eligible, last_flush, flushes, faults, prev,
                   cvars, nvars, summaries_backup, ivars, rvars, evars>>

\* -------------------------------------- index_documents.py, step by step
\* The backups as the script loads them.
q_data == disk.data

s_data == summaries_backup

\* chunked(list, size) as a list: the number of groups and the b-th group.
NumBatches(list, size) == (Len(list) + size - 1) \div size

BatchOf(list, size, b) ==
    SubSeq(list, (b - 1) * size + 1,
           IF b * size < Len(list) THEN b * size ELSE Len(list))

NextSection(name) ==
    CASE name = "questions" -> "summaries"
      [] name = "summaries" -> "chunks"
      [] name = "chunks" -> "questions"

\* The script starts: on its own, or after the question stage has finished.
IndexStarts ==
    /\ ipc = "idle"
    /\ stage = "index" \/ (stage = "questions" /\ pc = "done")

\* Lines 89-95: both backups are opened and unpickled.
index_load ==
    /\ IndexStarts
    /\ disk.state = "whole"
    /\ ipc' = "ensure"
    /\ section' = "questions"
    /\ UNCHANGED <<stage, pc, pdata, faults, collections, cvars, nvars,
                   summaries_backup, existing, records, embedded, upserted,
                   embed_calls, upserts, uploaded, skipped, rvars, evars>>

\* ensure_index(pc, name, DIMENSION): the index is created when no index of
\* that name is listed; one that is listed is left as it is.
EnsureIndex(name) ==
    IF existing[name] = 0 THEN [existing EXCEPT ![name] = DIMENSION] ELSE existing

\* Lines 133-135: one of the three ensure_index calls.
ensure_index ==
    /\ ipc = "ensure"
    /\ existing' = EnsureIndex(section)
    /\ section' = NextSection(section)
    /\ ipc' = IF section = "chunks" THEN "build" ELSE "ensure"
    /\ UNCHANGED <<stage, pc, pdata, faults, collections, cvars, nvars,
                   summaries_backup, records, embedded, upserted,
                   embed_calls, upserts, uploaded, skipped, rvars, evars>>

\* The building loop of a section: its records and its count of skipped
\* artifacts.
BuiltRecords(name) ==
    CASE name = "questions" -> QuestionRecords(q_data)
      [] name = "summaries" -> SummaryRecords(s_data)
      [] name = "chunks" -> ChunkRecords(s_data)

BuiltSkipped(name) ==
    CASE name = "questions" -> NumRejected(q_data.questions)
      [] name = "summaries" -> NumRejected(s_data.summary)
      [] name = "chunks" -> NumChunksRejected(s_data)

\* Lines 147-183, 204-239, 264-300: the records of the section are built,
\* every one with "values": None.
build_records ==
    /\ ipc = "build"
    /\ records' = BuiltRecords(section)
    /\ skipped' = [skipped EXCEPT ![section] = BuiltSkipped(section)]
    /\ embedded' = 0
    /\ ipc' = "embed"
    /\ UNCHANGED <<stage, pc, pdata, faults, collections, cvars, nvars,
                   summaries_backup, section, existing, upserted,
                   embed_calls, upserts, uploaded, rvars, evars>>

\* What a call of embedder.embed_documents(texts) can come to: a vector for
\* every text, fewer vectors than texts, or an exception.
EmbedOutcomes == {"ok", "short", "raises"}

\* Number of vectors returned for a batch of the given length.
NumVectors(outcome, len) == IF outcome = "short" THEN len - 1 ELSE len

Texts(recs) == [p \in DOMAIN recs |-> recs[p].text]

AssignSwapped(recs, first, count, call) ==
    [p \in DOMAIN recs |->
        IF p >= first /\ p < first + count
        THEN [recs[p] EXCEPT !.values = <<call, first + count - p>>]
        ELSE recs[p]]

\* `for (_, rec), vec in zip(batch, vecs): rec["values"] = vec`: the record
\* at place p of the batch gets vector p of this call, as far as vecs goes.
\* A vector is named by the call that returned it and its place in vecs.
AssignVectors(recs, first, count, call) ==
    [p \in DOMAIN recs |->
        IF p >= first /\ p < first + count
        THEN [recs[p] EXCEPT !.values = <<call, p - first + 1>>]
        ELSE recs[p]]

\* Lines 186-190, 242-246, 302-306: one turn of the embedding loop.  An
\* exception of the embedder is caught nowhere and ends the script.
embed_batch ==
    /\ ipc = "embed"
    /\ embedded < NumBatches(records, BATCH_EMB)
    /\ LET batch == BatchOf(records, BATCH_EMB, embedded + 1)
           call  == Len(embed_calls) + 1
       IN  /\ embed_calls' = Append(embed_calls,
                                    [section |-> section, texts |-> Texts(batch)])
           /\ \E outcome \in EmbedOutcomes :
               /\ Charge(outcome)
               /\ IF outcome = "raises"
                  THEN /\ ipc' = "aborted"
                       /\ UNCHANGED <<records, embedded>>
                  ELSE /\ records' = AssignVectors(records, embedded * BATCH_EMB + 1,
                                                   NumVectors(outcome, Len(batch)), call)
                       /\ embedded' = embedded + 1
                       /\ ipc' = "embed"
    /\ UNCHANGED <<stage, pc, pdata, collections, cvars, nvars,
                   summaries_backup, section, existing, upserted,
                   upserts, uploaded, skipped, rvars, evars>>

\* The embedding loop of the section is over.
embed_end ==
    /\ ipc = "embed"
    /\ embedded = NumBatches(records, BATCH_EMB)
    /\ upserted' = 0
    /\ ipc' = "upsert"
    /\ UNCHANGED <<stage, pc, pdata, faults, collections, cvars, nvars,
                   summaries_backup, section, existing, records, embedded,
                   embed_calls, upserts, uploaded, skipped, rvars, evars>>

\* What a call of index.upsert(vectors=batch) can come to.  An index of
\* another dimension refuses vectors of DIMENSION components.
UpsertOutcomes == {"ok", "raises"}

\* Lines 192-196, 248-252, 308-312: one turn of the upsert loop.  An
\* exception of the client is caught nowhere and ends the script.
upsert_batch ==
    /\ ipc = "upsert"
    /\ upserted < NumBatches(records, BATCH_UPSERT)
    /\ LET batch == BatchOf(records, BATCH_UPSERT, upserted + 1)
       IN  /\ upserts' = Append(upserts, [section |-> section, records |-> batch])
           /\ \E outcome \in UpsertOutcomes :
               /\ IF existing[section] # DIMENSION
                  THEN outcome = "raises" /\ faults' = faults
                  ELSE Charge(outcome)
               /\ IF outcome = "raises"
                  THEN /\ ipc' = "aborted"
                       /\ UNCHANGED <<collections, uploaded, upserted>>
                  ELSE /\ collections' =
                              [collections EXCEPT ![section] = Upsert(@, Ids(batch))]
                       /\ uploaded' = [uploaded EXCEPT ![section] = @ + Len(batch)]
                       /\ upserted' = upserted + 1
                       /\ ipc' = "upsert"
    /\ UNCHANGED <<stage, pc, pdata, cvars, nvars, summaries_backup, section,
                   existing, records, embedded, embed_calls, skipped, rvars, evars>>

\* The upsert loop of the section is over: the next section, or the end.
upsert_end ==
    /\ ipc = "upsert"
    /\ upserted = NumBatches(records, BATCH_UPSERT)
    /\ section' = IF section = "chunks" THEN section ELSE NextSection(section)
    /\ ipc' = IF section = "chunks" THEN "done" ELSE "build"
    /\ UNCHANGED <<stage, pc, pdata, faults, collections, cvars, nvars,
                   summaries_backup, existing, records, embedded, upserted,
                   embed_calls, upserts, uploaded, skipped, rvars, evars>>

IndexStep ==
    \/ index_load
    \/ ensure_index
    \/ build_records
    \/ embed_batch
    \/ embed_end
    \/ upsert_batch
    \/ upsert_end

\* ----------------------------------------------- the index stage by itself
\* A document of the summaries backup: its summary and its chunks.
Document(summary, chunks) == [summary |-> summary, chunks |-> chunks]

PlainDocument == Document("summary", ChunksOfDocument)

\* Documents the model draws from: a plain one, ones with a blank, a
\* ceiling-long and an oversized summary, ones with a blank and an
\* oversized first chunk, and an empty spreadsheet.
DocumentKinds ==
    { PlainDocument,
      Document("empty", ChunksOfDocument),
      Document("limit", ChunksOfDocument),
      Document("oversized", ChunksOfDocument),
      Document("summary", <<"empty">> \o ChunksOfDocument),
      Document("summary", <<"oversized">> \o ChunksOfDocument),
      Document("placeholder", <<>>) }

\* The summaries backup that holds the given documents under the given ids.
SummariesOf(ids, docs) ==
    [doc_id  |-> ids,
     summary |-> [j \in DOMAIN ids |-> docs[j].summary],
     chunks  |-> [j \in DOMAIN ids |-> docs[j].chunks]]

\* The questions backup with questions for every one of the ids.
QuestionsOf(ids) ==
    [doc_id |-> ids, questions |-> [j \in DOMAIN ids |-> "questions"]]

\* Indexes the vector store can hold before the script runs.
AllIndexes == [name \in IndexNames |-> DIMENSION]

ExistingIndexes ==
    { NoCounts,
      AllIndexes,
      [AllIndexes EXCEPT !["chunks"] = 768],
      [NoCounts EXCEPT !["questions"] = 768] }

\* Number of documents that fills an upsert batch and begins the next.
ManyDocs == BATCH_UPSERT + 1

IndexInput(q, s, e) == [q |-> q, s |-> s, existing |-> e]

\* Backups and indexes the script is started on: every short summaries
\* backup with a fresh vector store; two plain documents with every store;
\* a questions backup with an oversized entry; and backups long enough for
\* several embedding and upsert batches, all plain or with a blank first
\* summary.
IndexInputs ==
    {IndexInput(QuestionsOf(UnitIds(Len(docs))),
                SummariesOf(UnitIds(Len(docs)), docs), NoCounts) :
        docs \in SeqsUpTo(DocumentKinds, MaxDocs)}
    \cup
    {IndexInput(QuestionsOf(UnitIds(2)),
                SummariesOf(UnitIds(2), <<PlainDocument, PlainDocument>>), e) :
        e \in ExistingIndexes}
    \cup
    {IndexInput([doc_id |-> UnitIds(2), questions |-> <<"oversized", "questions">>],
                SummariesOf(UnitIds(2), <<PlainDocument, PlainDocument>>), AllIndexes)}
    \cup
    {IndexInput(QuestionsOf(UnitIds(ManyDocs)),
                SummariesOf(UnitIds(ManyDocs),
                            [j \in 1..ManyDocs |-> IF j = 1 THEN first ELSE PlainDocument]),
                AllIndexes) :
        first \in {PlainDocument, Document("empty", ChunksOfDocument)}}

InitIndex ==
    /\ stage = "index"
    /\ pc = "done"
    /\ file_ids = <<>>
    /\ run = 1
    /\ faults = 0
    /\ prev = NoPrev
    /\ collections = EmptyCollections
    /\ indexed = FALSE
    /\ FreshProcess
    /\ ChunkedIdle
    /\ NormalizeIdle
    /\ ipc = "idle"
    /\ section = "questions"
    /\ records = <<>>
    /\ embedded = 0
    /\ upserted = 0
    /\ embed_calls = <<>>
    /\ upserts = <<>>
    /\ uploaded = NoCounts
    /\ skipped = NoCounts
    /\ RecordIdIdle
    /\ ConfigIdle
    /\ \E input \in IndexInputs :
        /\ disk = Whole(input.q)
        /\ summaries_backup = input.s
        /\ existing = input.existing

SpecIndex == InitIndex /\ [][IndexStep]_vars

\* ------------------------------------------------------------ the process
\* The process is stopped from outside (signal, KeyboardInterrupt, power
\* loss): neither stage catches it and neither has a finally clause, so
\* the file stays as the last write left it and what the process held in
\* memory is gone.
Interrupt ==
    /\ stage \in {"summaries", "questions"}
    /\ pc \in Running
    /\ pc' = "interrupted"
    /\ out' = EmptyLedger
    /\ already_processed' = {}
    /\ i' = 1
    /\ processed_count' = 0
    /\ skipped_count' = 0
    /\ failed_ids' = <<>>
    /\ failed_count' = 0
    /\ loaded' = EmptyLedger
    /\ attempts' = NoAttempts
    /\ llm_calls' = {}
    /\ failed_at' = {}
    /\ skip_eligible' = {}
    /\ flushes' = 0
    /\ UNCHANGED <<stage, file_ids, run, disk, last_flush, faults, prev,
                   collections, indexed, cvars, nvars, summaries_backup, ivars, rvars, evars>>

\* The pipeline is started again over the same input and the same file:
\* after an interruption, or after the index stage that follows a finished
\* run.
Restart ==
    /\ stage \in {"summaries", "questions"}
    /\ pc = "interrupted" \/ (pc = "done" /\ indexed)
    /\ run < MaxRuns
    /\ UNCHANGED <<stage, file_ids, disk, faults, collections, cvars, nvars, summaries_backup, ivars, rvars, evars>>
    /\ prev' = [ended |-> pc, indexed |-> indexed,
                failed |-> Len(failed_ids) + failed_count,
                disk |-> disk, collections |-> collections]
    /\ indexed' = FALSE
    /\ run' = run + 1
    /\ pc' = "load"
    /\ out' = EmptyLedger
    /\ already_processed' = {}
    /\ i' = 1
    /\ processed_count' = 0
    /\ skipped_count' = 0
    /\ failed_ids' = <<>>
    /\ failed_count' = 0
    /\ loaded' = EmptyLedger
    /\ attempts' = NoAttempts
    /\ llm_calls' = {}
    /\ failed_at' = {}
    /\ skip_eligible' = {}
    /\ last_flush' = EmptyLedger
    /\ flushes' = 0

RunStep ==
    \/ generate_summaries_startup
    \/ extract_data_skip
    \/ extract_data_unit
    \/ extract_data_backup_dump
    \/ extract_data_final_open
    \/ extract_data_final_dump
    \/ generate_questions_startup
    \/ generate_all_questions_skip
    \/ generate_all_questions_unit
    \/ generate_all_questions_backup_dump
    \/ generate_all_questions_final_open
    \/ generate_all_questions_final_dump

Next ==
    \/ generate_summaries_startup
    \/ extract_data_skip
    \/ extract_data_unit
    \/ extract_data_backup_dump
    \/ extract_data_final_open
    \/ extract_data_final_dump
    \/ generate_questions_startup
    \/ generate_all_questions_skip
    \/ generate_all_questions_unit
    \/ generate_all_questions_backup_dump
    \/ generate_all_questions_final_open
    \/ generate_all_questions_final_dump
    \/ index_questions
    \/ index_summaries
    \/ Interrupt
    \/ Restart

Spec == Init /\ [][Next]_vars

\* ------------------------------------------------------------ chunked(xs, n)
Items == {"a", "b"}

BufFullOffByOne(b, max_count) == Len(b) > max_count

\* `len(buf) >= n`
BufFull(b, max_count) == Len(b) >= max_count

TransformIdle ==
    /\ file_ids = <<>>
    /\ run = 1
    /\ disk = Missing
    /\ faults = 0
    /\ prev = NoPrev
    /\ collections = EmptyCollections
    /\ indexed = FALSE
    /\ FreshProcess

InitChunked ==
    /\ stage = "chunked"
    /\ pc = "loop"
    /\ TransformIdle
    /\ NormalizeIdle
    /\ summaries_backup = EmptyOut
    /\ IndexIdle
    /\ RecordIdIdle
    /\ ConfigIdle
    /\ xs \in SeqsUpTo(Items, MaxItems)
    /\ n \in 1..MaxCount
    /\ k = 1
    /\ buf = <<>>
    /\ groups = <<>>

\* One turn of `for x in xs`: append, and yield the buffer when it is full.
chunked_next ==
    /\ stage = "chunked"
    /\ pc = "loop"
    /\ k <= Len(xs)
    /\ IF BufFull(Append(buf, xs[k]), n)
       THEN groups' = Append(groups, Append(buf, xs[k])) /\ buf' = <<>>
       ELSE groups' = groups /\ buf' = Append(buf, xs[k])
    /\ k' = k + 1
    /\ UNCHANGED <<stage, tvars, xs, n, nvars, summaries_backup, ivars, rvars, evars>>

\* After the loop: `if buf: yield buf`, and the generator is exhausted.
chunked_end ==
    /\ stage = "chunked"
    /\ pc = "loop"
    /\ k > Len(xs)
    /\ groups' = IF buf # <<>> THEN Append(groups, buf) ELSE groups
    /\ buf' = <<>>
    /\ pc' = "done"
    /\ UNCHANGED <<stage, file_ids, run, disk, out, already_processed, i,
                   processed_count, skipped_count, failed_ids, failed_count, loaded,
                   attempts, llm_calls, failed_at, skip_eligible, last_flush, flushes, faults, prev,
                   collections, indexed, xs, n, k, nvars, summaries_backup, ivars, rvars, evars>>

NextChunked ==
    \/ chunked_next
    \/ chunked_end

SpecChunked == InitChunked /\ [][NextChunked]_vars

\* ------------------------------------- generate_questions_from_summary
\* A string is a sequence of one-character strings.  The characters that
\* lstrip("-<bullet>0123456789. ") removes from the left of a line; the
\* bullet character U+2022 is written "bullet":
MarkerChars ==
    {"-", "bullet", "0", "1", "2", "3", "4", "5", "6", "7", "8", "9", ".", " "}

\* The characters str.strip() removes; a line holds no line break.
Whitespace == {" "}

RECURSIVE LStrip(_, _)

LStripKeepMarkers(s, chars) == s

\* str.lstrip(chars): drop the longest prefix made of characters of chars.
LStrip(s, chars) ==
    IF s # <<>> /\ Head(s) \in chars THEN LStrip(Tail(s), chars) ELSE s

\* str.rstrip(): drop the longest suffix made of whitespace.
RECURSIVE RStrip(_)
RStrip(s) ==
    IF s # <<>> /\ s[Len(s)] \in Whitespace
    THEN RStrip(SubSeq(s, 1, Len(s) - 1)) ELSE s

\* str.strip()
Strip(s) == RStrip(LStrip(s, Whitespace))

\* str.splitlines() for "\n" line breaks: no empty last line after a final
\* break, and no line at all for the empty string.
RECURSIVE SplitLines(_)
SplitLines(s) ==
    IF s = <<>> THEN <<>>
    ELSE IF \E p \in 1..Len(s) : s[p] = "\n"
         THEN LET p == CHOOSE q \in 1..Len(s) :
                           s[q] = "\n" /\ \A r \in 1..(q - 1) : s[r] # "\n"
              IN  <<SubSeq(s, 1, p - 1)>> \o SplitLines(SubSeq(s, p + 1, Len(s)))
         ELSE <<s>>

\* q.strip().lstrip("-<bullet>0123456789. ").strip()
TrimLine(q) == Strip(LStrip(Strip(q), MarkerChars))

\* [TrimLine(q) for q in raw_lines if q.strip()]
RECURSIVE TrimLines(_)
TrimLines(raw_lines) ==
    IF raw_lines = <<>> THEN <<>>
    ELSE IF Strip(Head(raw_lines)) # <<>>
         THEN <<TrimLine(Head(raw_lines))>> \o TrimLines(Tail(raw_lines))
         ELSE TrimLines(Tail(raw_lines))

\* [q for q in questions if len(q) > 10]
LongEnough(q) == Len(q) > min_question_len

\* The values of a list of <<position, value>> pairs.
Values(ps) == [j \in DOMAIN ps |-> ps[j][2]]

DedupKeepAll(qs) == qs

\* list(dict.fromkeys(qs)): the first occurrence of every value, in order.
Dedup(qs) ==
    Values(SelectSeq([j \in DOMAIN qs |-> <<j, qs[j]>>],
                     LAMBDA e : \A h \in 1..(e[1] - 1) : qs[h] # e[2]))

\* qs[:m] for m >= 0
Take(qs, m) == SubSeq(qs, 1, IF m < Len(qs) THEN m ELSE Len(qs))

\* Lines 81-83 of generate_questions_from_summary.
NormalizeQuestions(text, m) ==
    Take(Dedup(SelectSeq(TrimLines(SplitLines(text)), LongEnough)), m)

\* Generator outputs the model draws from.  Lines of an answer:
WhoPaid == <<"W", "h", "o", " ", "p", "a", "i", "d", " ">>

QuestionX == WhoPaid \o <<"X", "?">>

QuestionY == WhoPaid \o <<"Y", "?">>

TenChars == WhoPaid \o <<"?">>

Foo == <<"F", "o", "o">>

Bar == <<"B", "a", "r">>

AnswerLines ==
    { <<>>,
      <<"1", ".", " ">> \o Foo,
      <<"-", " ">> \o Foo,
      <<"2", ".", " ">> \o Bar,
      <<"1", ".", " ">> \o QuestionX,
      <<"-", " ">> \o QuestionX,
      <<"2", ".", " ">> \o QuestionY,
      <<" ">> \o QuestionY \o <<" ">>,
      <<"bullet", " ">> \o TenChars,
      <<"2", " ">> \o TenChars }

\* "\n".join(lines)
RECURSIVE JoinLines(_)
JoinLines(lines) ==
    IF lines = <<>> THEN <<>>
    ELSE IF Len(lines) = 1 THEN lines[1]
         ELSE lines[1] \o <<"\n">> \o JoinLines(Tail(lines))

Contents == {JoinLines(lines) : lines \in SeqsUpTo(AnswerLines, MaxLines)}

\* Values of n: small ones, the 5 of the specification's example, the default.
NValues == (0..MaxN) \cup {5, default_n}

InitNormalize ==
    /\ stage = "normalize"
    /\ pc = "invoke"
    /\ TransformIdle
    /\ xs = <<>> /\ k = 1 /\ buf = <<>> /\ groups = <<>>
    /\ n \in NValues
    /\ NormalizeIdle
    /\ summaries_backup = EmptyOut
    /\ IndexIdle
    /\ RecordIdIdle
    /\ ConfigIdle

\* Line 81: llm.invoke(prompt) returns a response.
llm_invoke_returns ==
    /\ stage = "normalize"
    /\ pc = "invoke"
    /\ content' \in Contents
    /\ pc' = "normalize"
    /\ UNCHANGED <<stage, tdata, cvars, questions, summaries_backup, ivars, rvars, evars>>

\* Line 81 raises: lines 87-88 print the error and return [].
llm_invoke_raises ==
    /\ stage = "normalize"
    /\ pc = "invoke"
    /\ questions' = <<>>
    /\ pc' = "except"
    /\ UNCHANGED <<stage, tdata, cvars, content, summaries_backup, ivars, rvars, evars>>

\* Lines 82-85: the answer is normalized and returned.
normalize_answer ==
    /\ stage = "normalize"
    /\ pc = "normalize"
    /\ questions' = NormalizeQuestions(content, n)
    /\ pc' = "done"
    /\ UNCHANGED <<stage, tdata, cvars, content, summaries_backup, ivars, rvars, evars>>

NextNormalize ==
    \/ llm_invoke_returns
    \/ llm_invoke_raises
    \/ normalize_answer

SpecNormalize == InitNormalize /\ [][NextNormalize]_vars

\* ------------------------------------------------- record ids as strings
\* The steps above name a record by the tuple of the parts of its id.  Here
\* the id is the string the f-string makes, a sequence of characters, for
\* doc_ids that may hold the characters of the separator and digits.
Separator == <<":", ":">>

DigitChars == <<"0", "1", "2", "3", "4", "5", "6", "7", "8", "9">>

\* str(i) of a natural number
RECURSIVE Decimal(_)
Decimal(m) ==
    IF m < 10 THEN <<DigitChars[m + 1]>>
    ELSE Decimal(m \div 10) \o <<DigitChars[(m % 10) + 1]>>

\* f"{doc_id}::questions"
QuestionsIdString(doc) ==
    doc \o Separator \o <<"q", "u", "e", "s", "t", "i", "o", "n", "s">>

\* f"{doc_id}::summary"
SummaryIdString(doc) == doc \o Separator \o <<"s", "u", "m", "m", "a", "r", "y">>

ChunkIdStringUnseparated(doc, c) == doc \o Decimal(c)

\* f"{doc_id}::chunk::{i}"
ChunkIdString(doc, c) ==
    doc \o Separator \o <<"c", "h", "u", "n", "k">> \o Separator \o Decimal(c)

\* An artifact key: the collection, the doc_id and, for a chunk, its index.
ArtifactKey(kind, doc, c) == [kind |-> kind, doc_id |-> doc, index |-> c]

RecordIdString(key) ==
    CASE key.kind = "questions" -> QuestionsIdString(key.doc_id)
      [] key.kind = "summaries" -> SummaryIdString(key.doc_id)
      [] key.kind = "chunks" -> ChunkIdString(key.doc_id, key.index)

\* doc_ids the model draws from.
DocIdChars == {"a", "1", ":"}

DocIds == SeqsUpTo(DocIdChars, MaxIdLen)

ArtifactKeys(kind) ==
    IF kind = "chunks"
    THEN {ArtifactKey(kind, doc, c) : doc \in DocIds, c \in 0..MaxChunkIndex}
    ELSE {ArtifactKey(kind, doc, 0) : doc \in DocIds}

InitRecordId ==
    /\ stage = "record_id"
    /\ pc = "format"
    /\ TransformIdle
    /\ ChunkedIdle
    /\ NormalizeIdle
    /\ summaries_backup = EmptyOut
    /\ IndexIdle
    /\ \E kind \in IndexNames : keys \in ArtifactKeys(kind) \X ArtifactKeys(kind)
    /\ record_ids = <<>>
    /\ ConfigIdle

\* Lines 180, 236, 297: the ids of the records of two artifacts.
format_record_ids ==
    /\ stage = "record_id"
    /\ pc = "format"
    /\ record_ids' = <<RecordIdString(keys[1]), RecordIdString(keys[2])>>
    /\ pc' = "done"
    /\ UNCHANGED <<stage, tdata, cvars, nvars, summaries_backup, ivars, keys, evars>>

SpecRecordId == InitRecordId /\ [][format_record_ids]_vars

\* --------------------------------- question stage, then the index stage
\* The two later stages run one after the other over a summaries backup of
\* three documents A, B, C, with no questions backup yet.
PipelineIds == <<"A", "B", "C">>

PipelineDocuments ==
    {PlainDocument, Document("empty", ChunksOfDocument), Document("short", ChunksOfDocument)}

InitPipeline ==
    /\ stage = "questions"
    /\ summaries_backup \in
           {SummariesOf(PipelineIds, docs) : docs \in [DOMAIN PipelineIds -> PipelineDocuments]}
    /\ file_ids = summaries_backup.doc_id
    /\ run = 1
    /\ pc = "load"
    /\ disk = Missing
    /\ faults = 0
    /\ prev = NoPrev
    /\ collections = EmptyCollections
    /\ indexed = FALSE
    /\ FreshProcess
    /\ ChunkedIdle
    /\ NormalizeIdle
    /\ IndexIdle
    /\ RecordIdIdle
    /\ ConfigIdle

NextPipeline ==
    \/ generate_questions_startup
    \/ generate_all_questions_unit
    \/ generate_all_questions_final_open
    \/ generate_all_questions_final_dump
    \/ index_load
    \/ ensure_index
    \/ build_records
    \/ embed_batch
    \/ embed_end
    \/ upsert_batch
    \/ upsert_end

SpecPipeline == InitPipeline /\ [][NextPipeline]_vars

\* ------------------------------------------------- one uninterrupted run
\* The ledger an earlier run leaves when its first p units succeeded.
LedgerOfFirst(p) ==
    IF stage = "questions"
    THEN [doc_id |-> UnitIds(p), questions |-> [j \in 1..p |-> "questions"]]
    ELSE [doc_id |-> UnitIds(p), summary |-> [j \in 1..p |-> "summary"],
          chunks |-> [j \in 1..p |-> ChunksOfDocument]]

\* A questions ledger that also carries a "chunks" list, the shape the
\* start-up code of generate_questions.py provides for (lines 26-27).
WithChunks(o) ==
    [key \in DOMAIN o \cup {"chunks"} |->
        IF key = "chunks" THEN [j \in DOMAIN o.doc_id |-> ChunksOfDocument] ELSE o[key]]

\* Files a process can find at start-up: none, one cut short by an
\* interrupted backup, the periodic backup of an interrupted run, the
\* final backup of a finished run, or (question stage) a ledger with a
\* "chunks" list.
FilesAtStartup ==
    {Missing, Partial}
        \cup {Whole(LedgerOfFirst(p)) :
                 p \in {q \in {backup_every, Len(file_ids)} : q <= Len(file_ids)}}
        \cup {Whole(WithChunks(LedgerOfFirst(p))) :
                 p \in {q \in 1..MaxShort : stage = "questions" /\ q <= Len(file_ids)}}

InitResumed ==
    /\ stage \in {"summaries", "questions"}
    /\ file_ids \in InputLists
    /\ run = 1
    /\ pc = "load"
    /\ disk \in FilesAtStartup
    /\ faults = 0
    /\ prev = NoPrev
    /\ collections = EmptyCollections
    /\ indexed = FALSE
    /\ FreshProcess
    /\ ChunkedIdle
    /\ NormalizeIdle
    /\ summaries_backup = OpenSummaries
    /\ IndexIdle
    /\ RecordIdIdle
    /\ ConfigIdle

NextRun ==
    \/ RunStep
    \/ index_questions
    \/ index_summaries

\* A sequential program left alone: a step the process can take is
\* eventually taken.
FairSpec == InitResumed /\ [][NextRun]_vars /\ WF_vars(RunStep)

\* ------------------------------------- start-up of the question stage
\* What the question stage can find when it starts: each of the two input
\* files there or not, and a metadata table with any set of the required
\* columns.
ConfigFiles ==
    [summaries_backup_path : BOOLEAN, files_index_path : BOOLEAN,
     columns : SUBSET RequiredColumns]

InitConfig ==
    /\ stage = "questions"
    /\ file_ids \in InputLists
    /\ run = 1
    /\ pc = "load"
    /\ disk \in FilesAtStartup
    /\ faults = 0
    /\ prev = NoPrev
    /\ collections = EmptyCollections
    /\ indexed = FALSE
    /\ FreshProcess
    /\ ChunkedIdle
    /\ NormalizeIdle
    /\ summaries_backup = OpenSummaries
    /\ IndexIdle
    /\ RecordIdIdle
    /\ files \in ConfigFiles
    /\ sys_exit = <<>>

NextConfig ==
    \/ generate_questions_startup
    \/ generate_questions_exit
    \/ generate_all_questions_skip
    \/ generate_all_questions_unit
    \/ generate_all_questions_backup_dump
    \/ generate_all_questions_final_open
    \/ generate_all_questions_final_dump

SpecConfig == InitConfig /\ [][NextConfig]_vars

\* ------------------------------------- input lists that repeat a doc_id
\* A list long enough for the periodic backup, whose last unit names the
\* doc_id of the first one again.
RepeatingLongList == [j \in 1..MaxUnits |-> IF j = MaxUnits THEN 1 ELSE j]

\* Input lists over two doc_ids, with and without repetition: file_ids of
\* extract_data, summaries_data['doc_id'] of generate_all_questions.
RepeatingLists == SeqsUpTo({1, 2}, MaxListLen) \cup {RepeatingLongList}

\* The process starts with no checkpoint file, or with one that holds
\* doc_id 1.
InitRepeating ==
    /\ stage \in {"summaries", "questions"}
    /\ file_ids \in RepeatingLists
    /\ run = 1
    /\ pc = "load"
    /\ disk \in {Missing, Whole(LedgerOfFirst(1))}
    /\ faults = 0
    /\ prev = NoPrev
    /\ collections = EmptyCollections
    /\ indexed = FALSE
    /\ FreshProcess
    /\ ChunkedIdle
    /\ NormalizeIdle
    /\ summaries_backup = OpenSummaries
    /\ IndexIdle
    /\ RecordIdIdle
    /\ ConfigIdle

SpecRepeating == InitRepeating /\ [][RunStep]_vars

\* ================================================================== claims
LoadedIds == Range(loaded.doc_id)

Count(seq, x) == Cardinality({j \in DOMAIN seq : seq[j] = x})

Units == DOMAIN file_ids

InLedgerAtLoad == {j \in Units : file_ids[j] \in LoadedIds}

Attempted == {j \in Units : attempts[j] > 0}

Succeeded == Attempted \ failed_at

\* C1 (resume contract): a unit whose doc_id is in the ledger as loaded at
\* start-up is never attempted, the text generator is never invoked for it,
\* its doc_id is never appended to the ledger again, and the units passed so
\* far that were in the loaded ledger are exactly the ones counted as skipped.
C1_ResumeContract ==
    /\ \A j \in InLedgerAtLoad :
          /\ attempts[j] = 0
          /\ j \notin llm_calls
          /\ Count(out.doc_id, file_ids[j]) = Count(loaded.doc_id, file_ids[j])
    /\ skipped_count = Cardinality({j \in InLedgerAtLoad : j < i})

C1_Witness ==
    /\ pc = "done"
    /\ skipped_count > 0
    /\ processed_count > 0
    /\ llm_calls # {}

\* C2 (resume correctness): when a run over M units that loaded a ledger
\* holding N of them ends, exactly M-N units were attempted (each once), and
\* the file holds the whole ledger of exactly N+k <= M entries, k being the
\* number of units that succeeded in this run.
C2_ResumeCorrectness ==
    pc = "done" =>
        /\ Len(loaded.doc_id) = Cardinality(InLedgerAtLoad)
        /\ Cardinality(Attempted) = Len(file_ids) - Cardinality(InLedgerAtLoad)
        /\ \A j \in Attempted : attempts[j] = 1
        /\ disk.state = "whole"
        /\ Len(disk.data.doc_id) = Cardinality(InLedgerAtLoad) + Cardinality(Succeeded)
        /\ Cardinality(InLedgerAtLoad) + Cardinality(Succeeded) <= Len(file_ids)

C2_Witness ==
    /\ pc = "done"
    /\ Cardinality(InLedgerAtLoad) > 0
    /\ Cardinality(Succeeded) > 0
    /\ Cardinality(InLedgerAtLoad) + Cardinality(Succeeded) < Len(file_ids)

SecondPipelineRunDone ==
    /\ prev.ended = "done"
    /\ prev.indexed
    /\ pc = "done"
    /\ indexed

SameAsAfterFirstRun ==
    /\ disk = prev.disk
    /\ collections = prev.collections
    /\ processed_count = 0
    /\ Attempted = {}

C4_FlushBeforeEveryTermination ==
    [][(pc \in Running /\ pc' \in Ended /\ processed_count > 0) =>
          (last_flush' = out /\ disk' = Whole(out))]_vars

\* C5 (periodic flush): whenever the loop is about to take its next unit (or
\* to leave) and the number of successful appends of this run is a positive
\* multiple of backup_every, the file holds the whole in-memory ledger.
C5_PeriodicFlush ==
    (pc = "loop" /\ processed_count > 0 /\ processed_count % backup_every = 0) =>
        /\ disk = Whole(out)
        /\ last_flush = out
        /\ flushes >= processed_count \div backup_every

C5_Witness ==
    /\ pc = "loop"
    /\ i <= Len(file_ids)
    /\ processed_count = backup_every
    /\ failed_at # {}
    /\ skipped_count > 0

\* C6 as stated (crash consistency), for the runs whose last completed flush
\* or load held an entry: after an interruption the file is a complete ledger
\* equal to the one of the last completed flush, or to the loaded one when
\* no flush completed.
C6_CrashConsistent ==
    (pc = "interrupted" /\ Len(last_flush.doc_id) > 0) => disk = Whole(last_flush)

Unflushed == Len(out.doc_id) - Len(last_flush.doc_id)

C8_FailureIsolation ==
    /\ Cardinality(failed_at) = Len(failed_ids) + failed_count
    /\ \A j \in failed_at :
          /\ pc # "aborted"
          /\ pc = "done" =>
                \A m \in Units : m > j => (attempts[m] = 1 \/ m \in InLedgerAtLoad)

C8_Witness ==
    /\ pc = "done"
    /\ \E j \in failed_at : j < Len(file_ids) /\ attempts[j + 1] = 1

AttemptedExactlyOnce ==
    pc = "done" =>
        \A j \in Units : attempts[j] = IF j \in InLedgerAtLoad THEN 0 ELSE 1

\* C9 (exactly-once attempt and termination): a started process always comes
\* to an end, and when its run is done every unit that was not in the ledger
\* at load was attempted exactly once and no other unit was attempted.
C9_TerminatesExactlyOnce ==
    /\ (pc = "load") ~> (pc \in {"done", "aborted"})
    /\ []AttemptedExactlyOnce

C9_Witness ==
    /\ pc = "done"
    /\ Attempted # {}
    /\ InLedgerAtLoad # {}
    /\ failed_at # {}

RECURSIVE Concat(_)
Concat(gs) == IF gs = <<>> THEN <<>> ELSE Head(gs) \o Concat(Tail(gs))

RECURSIVE SumLen(_)
SumLen(gs) == IF gs = <<>> THEN 0 ELSE Len(Head(gs)) + SumLen(Tail(gs))

\* C10 (batch invariant): every group chunked has yielded holds between 1
\* and max_count items, and once the generator is exhausted the group sizes
\* sum to len(items), every group but the last holds exactly max_count items
\* and the groups concatenate to the input.
C10_BatchInvariant ==
    stage = "chunked" =>
        /\ \A g \in DOMAIN groups : Len(groups[g]) >= 1 /\ Len(groups[g]) <= n
        /\ pc = "done" =>
              /\ SumLen(groups) = Len(xs)
              /\ \A g \in DOMAIN groups : g < Len(groups) => Len(groups[g]) = n
              /\ Concat(groups) = xs

C10_Witness ==
    /\ stage = "chunked"
    /\ pc = "done"
    /\ Len(groups) >= 2
    /\ Len(groups[Len(groups)]) < n

\* ------------------------------------------------------------------- C11
\* C11 (skip policy): for a unit whose source text is empty or at or below
\* the minimum length, the transform stage never invokes the text generator
\* and never appends an entry for its doc_id to the ledger.
C11_SkipPolicy ==
    (stage \in {"summaries", "questions"}) =>
        \A j \in skip_eligible :
            /\ j \notin llm_calls
            /\ file_ids[j] \in LoadedIds \/ file_ids[j] \notin Range(out.doc_id)

\* ------------------------------------------------------------------- C12
\* C12 (skip accounting): a unit whose source text is empty or below the
\* minimum length is counted as skipped and does not increase the failed
\* count.
C12_SkipAccounting ==
    (stage \in {"summaries", "questions"} /\ pc \in Running) =>
        /\ skip_eligible \cap failed_at = {}
        /\ skipped_count >= Cardinality(skip_eligible)

\* ------------------------------------------------------------------- C13
\* A line trims to e: e is the line without a prefix of marker characters
\* and without a suffix of whitespace, and e begins with no marker
\* character and ends with no whitespace.
TrimsTo(line, e) ==
    /\ e # <<>>
    /\ e[1] \notin MarkerChars
    /\ e[Len(e)] \notin Whitespace
    /\ \E a \in 1..Len(line) :
        /\ a + Len(e) - 1 <= Len(line)
        /\ SubSeq(line, a, a + Len(e) - 1) = e
        /\ \A j \in 1..(a - 1) : line[j] \in MarkerChars
        /\ \A j \in (a + Len(e))..Len(line) : line[j] \in Whitespace

\* Positions of the lines of the answer that trim to e.
LinesOf(e) == {j \in DOMAIN SplitLines(content) : TrimsTo(SplitLines(content)[j], e)}

Least(S) == CHOOSE j \in S : \A h \in S : j <= h

\* C13 (question normalization): the returned list has at most n entries,
\* no duplicate, only lines that after trimming the leading markers are
\* longer than the minimum length, in the order of their first occurrence.
C13_QuestionNormalization ==
    (stage = "normalize" /\ pc \in {"done", "except"}) =>
        /\ Len(questions) <= n
        /\ \A a, b \in DOMAIN questions : questions[a] = questions[b] => a = b
        /\ \A a \in DOMAIN questions :
            /\ LinesOf(questions[a]) # {}
            /\ Len(questions[a]) > min_question_len
        /\ \A a, b \in DOMAIN questions :
            a < b => Least(LinesOf(questions[a])) < Least(LinesOf(questions[b]))

\* An answer with a repeated question and more questions than n was
\* normalized.
C13_Witness ==
    /\ stage = "normalize"
    /\ pc = "done"
    /\ n = 1
    /\ content = JoinLines(<< <<"2", ".", " ">> \o QuestionY,
                              <<" ">> \o QuestionY \o <<" ">>,
                              <<"-", " ">> \o QuestionX >>)
    /\ questions = <<QuestionY>>

\* ------------------------------------------------------------------- C14
ExampleFooBar ==
    JoinLines(<< <<"1", ".", " ">> \o Foo, <<"-", " ">> \o Foo, <<"2", ".", " ">> \o Bar >>)

ExampleLongQuestions ==
    JoinLines(<< <<"1", ".", " ">> \o QuestionX, <<"-", " ">> \o QuestionX,
                 <<"2", ".", " ">> \o QuestionY >>)

\* C14 as stated: the answer "1. Foo", "- Foo", "2. Bar" with n = 5
\* normalizes to ["Foo", "Bar"].
C14_FooBarExample ==
    (stage = "normalize" /\ pc = "done" /\ content = ExampleFooBar /\ n = 5)
        => questions = <<Foo, Bar>>

\* C14 (de-duplication example), with questions longer than 10 characters:
\* the answer "1. Who paid X?", "- Who paid X?", "2. Who paid Y?" with n = 5
\* normalizes to ["Who paid X?", "Who paid Y?"], and the answer "1. Foo",
\* "- Foo", "2. Bar" to [].
C14_LongQuestionsExample ==
    (stage = "normalize" /\ pc = "done" /\ n = 5) =>
        /\ content = ExampleLongQuestions => questions = <<QuestionX, QuestionY>>
        /\ content = ExampleFooBar => questions = <<>>

C14_Witness ==
    /\ stage = "normalize"
    /\ pc = "done"
    /\ n = 5
    /\ content = ExampleLongQuestions
    /\ questions = <<QuestionX, QuestionY>>

\* ------------------------------------------------------------------- C15
\* The vector a record carries is the one an embedding call returned for
\* the record's own text: vector v of call c, where text v of call c is the
\* text of the record.
CarriesOwnVector(section_name, r) ==
    /\ r.values # None
    /\ r.values[1] \in DOMAIN embed_calls
    /\ embed_calls[r.values[1]].section = section_name
    /\ r.values[2] \in DOMAIN embed_calls[r.values[1]].texts
    /\ embed_calls[r.values[1]].texts[r.values[2]] = r.text

\* C15 (no upsert without a vector): every record passed to upsert carries
\* the vector computed for its own text, also when an embedding call failed
\* or returned fewer vectors than texts.
C15_NoUpsertWithoutVector ==
    (stage = "index") =>
        \A u \in DOMAIN upserts :
            \A p \in DOMAIN upserts[u].records :
                CarriesOwnVector(upserts[u].section, upserts[u].records[p])

\* ------------------------------------------------------------------- C16
\* The embedding calls made for a section so far, in order.
CallsOf(name) == SelectSeq(embed_calls, LAMBDA call : call.section = name)

\* Which call of its section the c-th embedding call is.
BatchNumber(c) ==
    Cardinality({d \in 1..c : embed_calls[d].section = embed_calls[c].section})

\* The embedding loop of the section is over.
EmbeddingOver(name) ==
    \/ section = name /\ ipc \in {"upsert", "done"}
    \/ name = "questions" /\ section \in {"summaries", "chunks"} /\ ipc # "ensure"
    \/ name = "summaries" /\ section = "chunks" /\ ipc # "ensure"

\* C16 (embedding per batch): the embedder is invoked once for each batch of
\* chunked(..., BATCH_EMB), in order, with the texts of that batch, and
\* vector i of a call is assigned to the record of text i of its batch.
C16_EmbeddingPerBatch ==
    (stage = "index") =>
        /\ \A name \in IndexNames :
            /\ Len(CallsOf(name)) <= NumBatches(BuiltRecords(name), BATCH_EMB)
            /\ \A b \in DOMAIN CallsOf(name) :
                   CallsOf(name)[b].texts =
                       Texts(BatchOf(BuiltRecords(name), BATCH_EMB, b))
            /\ EmbeddingOver(name) =>
                   Len(CallsOf(name)) = NumBatches(BuiltRecords(name), BATCH_EMB)
        /\ ipc \in {"embed", "upsert"} =>
             \A g \in DOMAIN records :
                /\ records[g].values # None =>
                     /\ records[g].values[1] \in DOMAIN embed_calls
                     /\ embed_calls[records[g].values[1]].section = section
                     /\ BatchNumber(records[g].values[1]) = ((g - 1) \div BATCH_EMB) + 1
                     /\ records[g].values[2] = ((g - 1) % BATCH_EMB) + 1
                /\ (faults = 0 /\ g <= embedded * BATCH_EMB) => records[g].values # None

\* Two embedding batches of one section were embedded and the first record
\* of the second batch carries the first vector of the second call.
C16_Witness ==
    /\ stage = "index"
    /\ ipc = "upsert"
    /\ section = "summaries"
    /\ embedded = 2
    /\ Len(records) > BATCH_EMB
    /\ records[BATCH_EMB + 1].values = <<Len(embed_calls), 1>>
    /\ records[BATCH_EMB].values = <<Len(embed_calls) - 1, BATCH_EMB>>

\* ------------------------------------------------------------------- C18
\* The artifacts of a section: the record id each would get, and its text.
Artifact(id, text) == [id |-> id, text |-> text]

ArtifactsOf(name) ==
    CASE name = "questions" ->
            {Artifact(QuestionsRecordId(q_data.doc_id[j]), q_data.questions[j]) :
                j \in DOMAIN q_data.doc_id}
      [] name = "summaries" ->
            {Artifact(SummaryRecordId(s_data.doc_id[j]), s_data.summary[j]) :
                j \in DOMAIN s_data.doc_id}
      [] name = "chunks" ->
            UNION {{Artifact(ChunkRecordId(s_data.doc_id[j], c - 1), s_data.chunks[j][c]) :
                       c \in DOMAIN s_data.chunks[j]} :
                   j \in DOMAIN s_data.doc_id}

TooLarge(name) == {a \in ArtifactsOf(name) : ByteLen(a.text) > MAX_DOC_BYTES}

\* The building loop of the section has run.
Built(name) ==
    \/ section = name /\ ipc \in {"embed", "upsert", "done", "aborted"}
    \/ name = "questions" /\ section \in {"summaries", "chunks"} /\ ipc # "ensure"
    \/ name = "summaries" /\ section = "chunks" /\ ipc # "ensure"

C20_EnsureCollection ==
    /\ [](stage = "index" =>
            /\ upserts # <<>> => ipc \notin {"idle", "ensure"}
            /\ (\E name \in IndexNames : existing[name] \notin {0, DIMENSION}) =>
                  /\ upserts = <<>>
                  /\ ipc \in {"idle", "ensure", "aborted"})
    /\ [][(stage = "index" /\ ipc = "ensure") =>
            /\ existing[section] = 0 =>
                  existing' = [existing EXCEPT ![section] = DIMENSION]
            /\ existing[section] = DIMENSION => existing' = existing]_vars

\* ------------------------------------------------------------------- C17
\* C17 (deterministic record ids): within one collection two artifact keys
\* get the same record id exactly when they are the same key.
C17_RecordIdsDistinct ==
    (stage = "record_id" /\ pc = "done") =>
        (record_ids[1] = record_ids[2] <=> keys[1] = keys[2])

\* Two chunks whose doc_ids and indices read the same when run together,
\* "a1" with 0 and "a" with 10, got different ids.
C17_Witness ==
    /\ stage = "record_id"
    /\ pc = "done"
    /\ keys[1] = ArtifactKey("chunks", <<"a", "1">>, 0)
    /\ keys[2] = ArtifactKey("chunks", <<"a">>, 10)
    /\ record_ids[1] # record_ids[2]

\* ------------------------------------------------------------------- C19
\* The summaries backup of the scenario: A with an empty summary, B and C
\* with valid ones.
ScenarioSummaries ==
    SummariesOf(PipelineIds,
                <<Document("empty", ChunksOfDocument), PlainDocument, PlainDocument>>)

C21_CheckpointLoad ==
    /\ [][pc = "load" =>
            IF disk.state = "missing"
            THEN /\ pc' = "loop"
                 /\ out' = EmptyLedger
                 /\ already_processed' = {}
            ELSE IF disk.state = "partial"
            THEN /\ pc' = "aborted"
                 /\ disk' = disk
            ELSE pc' = "loop" /\ out'.doc_id = disk.data.doc_id]_vars
    /\ [](pc = "aborted" =>
            /\ disk = Partial
            /\ attempts = NoAttempts
            /\ flushes = 0)

C21_Witness == pc = "aborted" /\ disk = Partial /\ Len(file_ids) > 0

\* The three cases of the claim, read off the files the process finds.
C22_Fatal ==
    \/ ~files.summaries_backup_path
    \/ ~files.files_index_path
    \/ \E col \in {"id", "name", "year"} : col \notin files.columns

\* C22 (fatal configuration): a question-generation process that finds the
\* summaries backup missing, the metadata table missing, or the table
\* without one of its required columns ends at start-up (with sys.exit(1),
\* or with the error of an unreadable questions checkpoint), never reaches
\* the loop, has attempted no unit, and leaves the questions checkpoint
\* file as it found it.
C22_FatalConfiguration ==
    /\ [][(pc = "load" /\ C22_Fatal) =>
            /\ pc' \in {"exited", "aborted"}
            /\ pc' = "exited" <=> disk.state # "partial"
            /\ pc' = "exited" => sys_exit' = <<1>>
            /\ disk' = disk]_vars
    /\ [][pc = "exited" => FALSE]_vars
    /\ [](C22_Fatal =>
            /\ pc \in {"load", "exited", "aborted"}
            /\ attempts = NoAttempts
            /\ llm_calls = {}
            /\ flushes = 0)
    /\ [](pc = "exited" => C22_Fatal /\ sys_exit = <<1>> /\ sys_exit[1] # 0)

C22_Witness ==
    /\ pc = "exited"
    /\ files.summaries_backup_path
    /\ files.files_index_path
    /\ files.columns = {"id", "name"}
    /\ disk.state = "whole"
    /\ Len(disk.data.doc_id) > 0

NoRepeat(seq) == \A a, b \in DOMAIN seq : seq[a] = seq[b] => a = b

C24_TransientNeverFatal ==
    [][faults' > faults => ipc' # "aborted"]_vars

\* The text create_contextual_summary returns when its generation call
\* raised.
ErrorMessage == SummaryText("error_text")

\* C25 as stated (failed generation is not checkpointed), for the
\* summarization stage: no entry of the ledger, in memory or in a completely
\* written file, holds the error message of a failed generation call as its
\* summary.
C25_FailedGenerationNotCheckpointed ==
    stage = "summaries" =>
        /\ \A j \in DOMAIN out.summary : out.summary[j] # ErrorMessage
        /\ disk.state = "whole" =>
               \A j \in DOMAIN disk.data.summary : disk.data.summary[j] # ErrorMessage

\* Chunk indices of the records the chunks index holds for a document.
ChunkIndicesWritten(doc) == {id[3] : id \in {r \in collections["chunks"] : r[1] = doc}}

\* Positions, counted from 0, of the chunks of document j of the summaries
\* ledger that are neither blank nor oversized.
AcceptedChunkIndices(j) ==
    {c - 1 : c \in {d \in DOMAIN s_data.chunks[j] : ~Rejected(s_data.chunks[j][d])}}

\* In every upsert call of the chunks section the records of one document
\* come in increasing order of their indices.
ChunkRecordsOrdered ==
    \A u \in DOMAIN upserts :
        upserts[u].section = "chunks" =>
            \A a, b \in DOMAIN upserts[u].records :
                (a < b /\ upserts[u].records[a].id[1] = upserts[u].records[b].id[1])
                    => upserts[u].records[a].id[3] < upserts[u].records[b].id[3]

\* C26 as stated (chunk records contiguous): the chunk records written for
\* a document of the summaries ledger carry the indices 0 .. k-1 with no
\* gap, in order, also when some of its chunks were skipped.
C26_ChunkIndicesContiguous ==
    stage = "index" =>
        /\ ChunkRecordsOrdered
        /\ ipc = "done" =>
              \A j \in DOMAIN s_data.doc_id :
                  ChunkIndicesWritten(s_data.doc_id[j])
                      = 0 .. (Cardinality(ChunkIndicesWritten(s_data.doc_id[j])) - 1)

\* C26 as amended: the chunk records written for a document carry, in
\* increasing order, the positions (from 0) its accepted chunks have in the
\* ledger's chunk list, all of them once the script is done; they are
\* contiguous from 0 when no chunk of the document was skipped, and a
\* skipped chunk leaves its index unused.
C26_ChunkIndicesArePositions ==
    stage = "index" =>
        /\ ChunkRecordsOrdered
        /\ \A j \in DOMAIN s_data.doc_id :
              /\ ChunkIndicesWritten(s_data.doc_id[j]) \subseteq AcceptedChunkIndices(j)
              /\ ipc = "done" =>
                    /\ ChunkIndicesWritten(s_data.doc_id[j]) = AcceptedChunkIndices(j)
                    /\ AcceptedChunkIndices(j) = 0 .. (Len(s_data.chunks[j]) - 1) =>
                          ChunkIndicesWritten(s_data.doc_id[j])
                              = 0 .. (Len(s_data.chunks[j]) - 1)

\* The script is done over a ledger whose first document has a blank or
\* oversized first chunk: its records carry the indices 1 and 2.
C26_Witness ==
    /\ stage = "index"
    /\ ipc = "done"
    /\ Len(s_data.doc_id) > 0
    /\ Len(s_data.chunks[1]) > 1
    /\ Rejected(s_data.chunks[1][1])
    /\ ChunkIndicesWritten(s_data.doc_id[1]) = 1 .. (Len(s_data.chunks[1]) - 1)

\* The three counters of a run; the failed units are the list failed_ids
\* in extract_data and the count failed_count in generate_all_questions.
NumFailed == Len(failed_ids) + failed_count

NumCounted == processed_count + skipped_count + NumFailed

\* Units the loop passed without an attempt, attempted without a recorded
\* failure, and attempted with one.
UnitsPassed == {j \in DOMAIN file_ids : attempts[j] = 0}

UnitsSucceeded == {j \in DOMAIN file_ids : attempts[j] > 0 /\ j \notin failed_at}

UnitsFailed == {j \in DOMAIN file_ids : attempts[j] > 0 /\ j \in failed_at}

\* C27 (unit accounting): at every loop head the units taken so far are
\* counted once each, and when the run is done the skipped, processed and
\* failed counts are the numbers of units passed over, attempted with
\* success and attempted with a recorded failure, so their sum is the number
\* of input units; a run that entered its loop comes to this end, units that
\* failed included.
C27_UnitAccounting ==
    /\ [](pc = "loop" => NumCounted = i - 1)
    /\ [](pc = "done" =>
            /\ failed_at \subseteq {j \in DOMAIN file_ids : attempts[j] > 0}
            /\ skipped_count = Cardinality(UnitsPassed)
            /\ processed_count = Cardinality(UnitsSucceeded)
            /\ NumFailed = Cardinality(UnitsFailed)
            /\ NumCounted = Len(file_ids))
    /\ (pc = "loop") ~> (pc = "done")

C27_Witness ==
    /\ pc = "done"
    /\ processed_count > 0
    /\ skipped_count > 0
    /\ NumFailed > 0
    /\ NumCounted = Len(file_ids)

\* The lists a ledger of the stage is made of.
LedgerKeys == IF stage = "questions" THEN {"doc_id", "questions"}
              ELSE {"doc_id", "summary", "chunks"}

\* The ledger has the lists of its stage and no other, all of one length.
Aligned(o) ==
    /\ DOMAIN o = LedgerKeys
    /\ \A key \in DOMAIN o : Len(o[key]) = Len(o.doc_id)

\* C28 (ledger alignment): whenever a run is past its load, the lists of
\* the ledger in memory have the same length, and so have the lists of
\* every ledger a flush of the run wrote to the file.
C28_LedgerAligned ==
    /\ pc \in {"loop", "dump_periodic", "dump_final", "done"} => Aligned(out)
    /\ flushes > 0 => Aligned(last_flush)
    /\ (flushes > 0 /\ disk.state = "whole") => Aligned(disk.data)

\* A run that loaded a questions ledger with a "chunks" list and has
\* appended a unit to it; the file is still the one it loaded.
C28_Witness ==
    /\ stage = "questions"
    /\ pc = "loop"
    /\ disk.state = "whole"
    /\ "chunks" \in DOMAIN disk.data
    /\ Len(out.doc_id) > Len(disk.data.doc_id)
    /\ Len(disk.data.doc_id) > 0

IsPrefix(a, b) == Len(a) <= Len(b) /\ \A j \in DOMAIN a : a[j] = b[j]

\* Every list of ledger o begins with the list of the same name of ledger l.
LedgerPrefix(l, o) ==
    /\ DOMAIN l = DOMAIN o
    /\ \A key \in DOMAIN l : IsPrefix(l[key], o[key])

\* The doc_ids of the units this run attempted with success, in the order
\* of the input list.
SucceededIds ==
    LET places == SelectSeq([j \in 1..Len(file_ids) |-> j],
                            LAMBDA j : j \in UnitsSucceeded)
    IN  [t \in DOMAIN places |-> file_ids[places[t]]]

\* C29 (append-only ledger): past the load, the ledger in memory begins
\* with the loaded ledger, entry for entry, followed by exactly the doc_ids
\* of this run's successful units in input order; every ledger a flush of
\* the run wrote begins with the loaded ledger and is itself the beginning
\* of the ledger in memory, and a completely written file holds it.
C29_AppendOnly ==
    pc \in {"loop", "dump_periodic", "dump_final", "done"} =>
        /\ LedgerPrefix(loaded, out)
        /\ out.doc_id = loaded.doc_id \o SucceededIds
        /\ flushes > 0 =>
              /\ LedgerPrefix(loaded, last_flush)
              /\ LedgerPrefix(last_flush, out)
              /\ disk.state = "whole" => disk.data = last_flush

\* A finished run that loaded entries, appended some, and had a unit fail.
C29_Witness ==
    /\ pc = "done"
    /\ flushes > 0
    /\ Len(loaded.doc_id) > 0
    /\ Len(disk.data.doc_id) > Len(loaded.doc_id)
    /\ failed_at # {}
    /\ LedgerPrefix(loaded, disk.data)

====
